---- MODULE Spec2Model ----
(***************************************************************************)
(* A model of the segmentation-and-chunking engine of PARSING-TECHNIQUES:  *)
(*   PDFParser.extract_structured_json   (block grouping, PDFParser.py)    *)
(*   PDFParser.merge_cross_page_blocks   (cross-page merge, PDFParser.py)  *)
(*   DocumentChunker._chunk_markdown_table (table splitter, chunker.py)    *)
(*   DocumentChunker.process_data        (chunk builder, chunker.py)       *)
(* and of what the API does with the chunks:                               *)
(*   ChromaDBManager.add_documents       (the store, chromadb.py)          *)
(*   update_status and the request handlers (processing_status, main.py)   *)
(*                                                                         *)
(* Python strings are sequences of one-character strings, so that          *)
(* formatting, joining, splitting and stripping are computed, not assumed. *)
(* Each component has its own specification (SpecTable, SpecGroup,         *)
(* SpecMerge, SpecChunk, SpecTwice, SpecShared, SpecStore, SpecStatus);    *)
(* the variables of the components a specification does not exercise stay  *)
(* at their idle values.                                                   *)
(***************************************************************************)
EXTENDS Integers, Sequences, FiniteSets, TLC

VARIABLES
    \* DocumentChunker instance (chunker.py:12-14) and _chunk_markdown_table
    self, markdown_text, table_chunks, tpc,
    \* PDFParser.extract_structured_json
    items, item_idx, current_page, current_type, current_content_buffer,
    output_data, gpc,
    \* PDFParser.merge_cross_page_blocks
    merge_data, merged_data, merged_again, mpc,
    \* the block list as it was when merge_cross_page_blocks was called
    merge_input,
    \* DocumentChunker.process_data
    source_data, data, entry_idx, page_counters, all_chunks, cpc, run_no,
    first_chunks,
    \* the process_data calls in progress on one shared DocumentChunker:
    \* the locals of each call, and the number of calls started
    workers, calls,
    \* process_file step 3 and ChromaDBManager.add_documents: the chunks of
    \* the run, the Document list, the ids of the batch, the collection
    store_chunks, documents, store_ids, collection, spc,
    \* the API: the upload directory, processing_status, the uuids handed out
    upload_dir, processing_status, issued

tvars == <<markdown_text, table_chunks, tpc>>
gvars == <<items, item_idx, current_page, current_type, current_content_buffer,
           output_data, gpc>>
mvars == <<merge_data, merged_data, merged_again, mpc, merge_input>>
cvars == <<source_data, data, entry_idx, page_counters, all_chunks, cpc, run_no,
           first_chunks>>
wvars == <<workers, calls>>
svars == <<store_chunks, documents, store_ids, collection, spc>>
pvars == <<upload_dir, processing_status, issued>>
vars == <<self, tvars, gvars, mvars, cvars, wvars, svars, pvars>>

----------------------------------------------------------------------------
(* Bounds of the model *)

\* longest table content, in lines
MaxLines == 5
\* largest max_table_rows configured
MaxRowsCfg == 2
\* longest block list handed to the cross-page merger
MaxMergeBlocks == 3
\* longest item sequence the document parser yields
MaxItems == 3
\* longest block list handed to the chunk builder
MaxBlocks == 2
\* most process_data calls started on one shared DocumentChunker
MaxCalls == 3
\* most chunks of one run handed to the store
MaxDocs == 3
\* most files uploaded to the API
MaxFiles == 2

----------------------------------------------------------------------------
(* Python values *)

NL == "\n"
\* the characters str.strip() removes, among those the model uses
Whitespace == {" ", NL}
\* None, as a value distinct from every string of the model
None == <<"<None>">>
\* a key a dict does not have
Missing == <<"<missing>">>

Min(a, b) == IF a <= b THEN a ELSE b

RECURSIVE LStrip(_)
LStrip(s) ==
    IF s # <<>> /\ Head(s) \in Whitespace THEN LStrip(Tail(s)) ELSE s

RECURSIVE RStrip(_)
RStrip(s) ==
    IF s # <<>> /\ s[Len(s)] \in Whitespace
    THEN RStrip(SubSeq(s, 1, Len(s) - 1)) ELSE s

\* str.strip()
Strip(s) == RStrip(LStrip(s))

\* str.startswith(c) for a one-character prefix
StartsWith(s, c) == s # <<>> /\ Head(s) = c

\* str.split(sep) for a one-character separator: always at least one piece
RECURSIVE Split(_, _)
Split(s, sep) ==
    IF \A i \in 1..Len(s) : s[i] # sep
    THEN <<s>>
    ELSE LET i == CHOOSE k \in 1..Len(s) :
                      s[k] = sep /\ \A j \in 1..(k - 1) : s[j] # sep
         IN  <<SubSeq(s, 1, i - 1)>> \o Split(SubSeq(s, i + 1, Len(s)), sep)

\* sep.join(parts)
RECURSIVE Join(_, _)
Join(parts, sep) ==
    IF parts = <<>> THEN <<>>
    ELSE IF Len(parts) = 1 THEN parts[1]
    ELSE parts[1] \o sep \o Join(Tail(parts), sep)

\* [f(x) for x in seq if keep(x)]
RECURSIVE StrippedRows(_)
StrippedRows(lines) ==
    IF lines = <<>> THEN <<>>
    ELSE (IF StartsWith(Strip(Head(lines)), "|")
          THEN <<Strip(Head(lines))>> ELSE <<>>) \o StrippedRows(Tail(lines))

\* str(n) for an integer
Digits == <<"0", "1", "2", "3", "4", "5", "6", "7", "8", "9">>

RECURSIVE NatStr(_)
NatStr(n) ==
    IF n < 10 THEN <<Digits[n + 1]>>
    ELSE NatStr(n \div 10) \o <<Digits[(n % 10) + 1]>>

IntStr(n) == IF n < 0 THEN <<"-">> \o NatStr(-n) ELSE NatStr(n)

----------------------------------------------------------------------------
(* DocumentChunker._chunk_markdown_table, chunker.py:22-50 *)

\* rows = [line.strip() for line in text.strip().split("\n")
\*         if line.strip().startswith("|")]
TableRows(text) == StrippedRows(Split(Strip(text), NL))

\* a splitter whose slice is one row short: data_rows[i:i + step - 1]
RECURSIVE TableChunksShortSlice(_, _, _, _)
TableChunksShortSlice(header, data_rows, step, i) ==
    IF i >= Len(data_rows) THEN <<>>
    ELSE <<Join(header \o SubSeq(data_rows, i + 1,
                                 Min(i + step - 1, Len(data_rows))), <<NL>>)>>
         \o TableChunksShortSlice(header, data_rows, step, i + step)

\* a splitter that puts the header pair on the first unit only
RECURSIVE TableChunksHeaderOnce(_, _, _, _)
TableChunksHeaderOnce(header, data_rows, step, i) ==
    IF i >= Len(data_rows) THEN <<>>
    ELSE <<Join((IF i = 0 THEN header ELSE <<>>)
                \o SubSeq(data_rows, i + 1, Min(i + step, Len(data_rows))),
                <<NL>>)>>
         \o TableChunksHeaderOnce(header, data_rows, step, i + step)

\* the units of  for i in range(0, len(data_rows), step)  from offset i on
\* (i is 0-based, as in the source)
RECURSIVE TableChunksFrom(_, _, _, _)
TableChunksFrom(header, data_rows, step, i) ==
    IF i >= Len(data_rows) THEN <<>>
    ELSE <<Join(header \o SubSeq(data_rows, i + 1,
                                 Min(i + step, Len(data_rows))), <<NL>>)>>
         \o TableChunksFrom(header, data_rows, step, i + step)

\* a splitter that returns a content of fewer than two rows stripped
chunk_markdown_table_stripped(text, max_table_rows) ==
    LET rows == TableRows(text)
        header == SubSeq(rows, 1, 2)
        data_rows == SubSeq(rows, 3, Len(rows))
    IN  IF text = <<>> THEN [raised |-> FALSE, chunks |-> <<>>]
        ELSE IF Len(rows) < 2 THEN [raised |-> FALSE, chunks |-> <<Strip(text)>>]
        ELSE IF data_rows = <<>>
             THEN [raised |-> FALSE, chunks |-> <<Join(header, <<NL>>)>>]
        ELSE IF max_table_rows = 0 THEN [raised |-> TRUE, chunks |-> <<>>]
        ELSE IF max_table_rows < 0 THEN [raised |-> FALSE, chunks |-> <<>>]
        ELSE [raised |-> FALSE,
              chunks |-> TableChunksFrom(header, data_rows, max_table_rows, 0)]

\* the value returned, or the ValueError range() raises for a step of 0
chunk_markdown_table(text, max_table_rows) ==
    LET rows == TableRows(text)
        header == SubSeq(rows, 1, 2)
        data_rows == SubSeq(rows, 3, Len(rows))
    IN  IF text = <<>> THEN [raised |-> FALSE, chunks |-> <<>>]
        ELSE IF Len(rows) < 2 THEN [raised |-> FALSE, chunks |-> <<text>>]
        ELSE IF data_rows = <<>>
             THEN [raised |-> FALSE, chunks |-> <<Join(header, <<NL>>)>>]
        ELSE IF max_table_rows = 0 THEN [raised |-> TRUE, chunks |-> <<>>]
        ELSE IF max_table_rows < 0 THEN [raised |-> FALSE, chunks |-> <<>>]
        ELSE [raised |-> FALSE,
              chunks |-> TableChunksFrom(header, data_rows, max_table_rows, 0)]

----------------------------------------------------------------------------
(* Page values: Python ints (from the parser) and strs (ranges) *)

PInt(n) == [t |-> "int", n |-> n, s |-> <<>>]
PStr(s) == [t |-> "str", n |-> 0, s |-> s]
\* str(page) / f"{page}"
PyStr(p) == IF p.t = "int" THEN IntStr(p.n) ELSE p.s

----------------------------------------------------------------------------
(* PDFParser.extract_structured_json, PDFParser.py:104-262 *)

\* PDFParser.__init__ defaults, PDFParser.py:16
min_width == 200
min_height == 200
min_area == 1000

\* Block and ImageData: the dicts of lines 156-160 and 221-226
Block(page_no, content_type, page_content) ==
    [page_no |-> page_no, content_type |-> content_type,
     page_content |-> page_content]

ImageData(name, width, height, page) ==
    [base64 |-> name, width |-> width, height |-> height, page |-> page]

\* lines 170-171: the page of an item, -1 without provenance
ItemPage(item) == IF item.prov # <<>> THEN item.prov[1] ELSE -1

TextClasses == {"TextItem", "SectionHeaderItem", "ListItem"}

\* a classification that lets blank text through as text
ItemTypeBlankIsText(item) ==
    CASE item.cls = "TableItem" -> "table"
      [] item.cls = "PictureItem" -> "image"
      [] item.cls \in TextClasses -> "text"
      [] OTHER -> "skip"

\* lines 173-183: the kind of an item, "skip" where the loop continues
ItemType(item) ==
    CASE item.cls = "TableItem" -> "table"
      [] item.cls = "PictureItem" -> "image"
      [] item.cls \in TextClasses ->
            IF Strip(item.text) = <<>> THEN "skip" ELSE "text"
      [] OTHER -> "skip"

\* line 179: item.text.strip() on an item that has no text raises, and the
\* exception leaves the loop through the handler of line 259
ItemRaises(item) == item.cls \in TextClasses /\ item.text = None

\* line 241: getattr(item, 'level', 2); level is <<>> on an item without one
HeaderLevel(item) == IF item.level = <<>> THEN 2 ELSE item.level[1]

\* "#" * n
RECURSIVE Hashes(_)
Hashes(n) == IF n <= 0 THEN <<>> ELSE <<"#">> \o Hashes(n - 1)

\* lines 195-251: what the item adds to the buffer, as a list of 0 or 1 units
ItemUnits(item, item_type, item_page) ==
    CASE item_type = "table" ->
            IF item.table.outcome = "frame" THEN <<item.table.markdown>> ELSE <<>>
      [] item_type = "image" ->
            IF /\ item.image.outcome = "image"
               /\ item.image.width >= min_width
               /\ item.image.height >= min_height
               /\ item.image.width * item.image.height >= min_area
            THEN <<ImageData(item.image.name, item.image.width,
                             item.image.height, item_page)>>
            ELSE <<>>
      [] item_type = "text" ->
            IF item.cls = "SectionHeaderItem"
            THEN <<Hashes(HeaderLevel(item)) \o <<" ">> \o Strip(item.text)>>
            ELSE IF item.cls = "ListItem"
            THEN <<<<"*", " ">> \o Strip(item.text)>>
            ELSE <<Strip(item.text)>>
      [] OTHER -> <<>>

\* a flush that joins text units with a single newline
FinalContentOneNewline(type, buffer) ==
    CASE type = "text" -> Join(buffer, <<NL>>)
      [] type = "table" -> Join(buffer, <<NL>>)
      [] type = "image" -> buffer
      [] OTHER -> <<>>

\* lines 139-148: the content of a flushed block
FinalContent(type, buffer) ==
    CASE type = "text" -> Join(buffer, <<NL, NL>>)
      [] type = "table" -> Join(buffer, <<NL>>)
      [] type = "image" -> buffer
      [] OTHER -> <<>>

\* a flush that appends whatever the buffer holds
flush_buffer_unguarded(output, page, type, buffer) ==
    Append(output, Block(PInt(page), type, FinalContent(type, buffer)))

\* a flush that keeps the first buffered unit only
flush_buffer_first_unit(output, page, type, buffer) ==
    IF buffer = <<>> THEN output
    ELSE Append(output, Block(PInt(page), type, FinalContent(type, <<buffer[1]>>)))

\* lines 135-160: output_data after flush_buffer()
flush_buffer(output, page, type, buffer) ==
    IF buffer = <<>> THEN output
    ELSE IF type = "text" /\ Strip(FinalContent(type, buffer)) = <<>> THEN output
    ELSE IF type = "image" /\ buffer = <<>> THEN output
    ELSE Append(output, Block(PInt(page), type, FinalContent(type, buffer)))

\* line 257: list.sort(key=page_no) is stable
RECURSIVE InsertByPage(_, _)
InsertByPage(sorted, block) ==
    IF sorted = <<>> THEN <<block>>
    ELSE IF sorted[Len(sorted)].page_no.n <= block.page_no.n
    THEN Append(sorted, block)
    ELSE Append(InsertByPage(SubSeq(sorted, 1, Len(sorted) - 1), block),
                sorted[Len(sorted)])

RECURSIVE SortByPage(_)
SortByPage(blocks) ==
    IF blocks = <<>> THEN <<>>
    ELSE InsertByPage(SortByPage(SubSeq(blocks, 1, Len(blocks) - 1)),
                      blocks[Len(blocks)])

----------------------------------------------------------------------------
(* PDFParser.merge_cross_page_blocks, PDFParser.py:264-309 *)

\* a merge that joins text with a single newline
MergeContentOneNewline(content_type, content, next_content) ==
    CASE content_type = "text" -> content \o <<NL>> \o next_content
      [] content_type = "table" -> content \o <<NL>> \o next_content
      [] content_type = "image" -> content \o next_content
      [] OTHER -> content

\* lines 288-293: the content of current_block after taking in next_block
MergeContent(content_type, content, next_content) ==
    CASE content_type = "text" -> content \o <<NL, NL>> \o next_content
      [] content_type = "table" -> content \o <<NL>> \o next_content
      [] content_type = "image" -> content \o next_content
      [] OTHER -> content

\* lines 279-297: the inner while loop from block i (1-based) on; yields the
\* widened block, the last page seen and the index of the last block taken in
RECURSIVE MergeAhead(_, _, _, _)
MergeAhead(blocks, i, current_block, last_page) ==
    IF i + 1 <= Len(blocks)
       /\ current_block.content_type = blocks[i + 1].content_type
    THEN MergeAhead(blocks, i + 1,
                    [current_block EXCEPT !.page_content =
                        MergeContent(current_block.content_type, @,
                                     blocks[i + 1].page_content)],
                    blocks[i + 1].page_no)
    ELSE [block |-> current_block, last_page |-> last_page, i |-> i]

\* a locator that is written as a range even for a single page
RunLocatorAlwaysRange(start_page, last_page) ==
    PStr(PyStr(start_page) \o <<"-">> \o PyStr(last_page))

\* lines 299-303: the page locator of a run
RunLocator(start_page, last_page) ==
    IF start_page = last_page THEN start_page
    ELSE PStr(PyStr(start_page) \o <<"-">> \o PyStr(last_page))

\* lines 273-306: the outer while loop from block i (1-based) on
RECURSIVE MergeFrom(_, _)
MergeFrom(blocks, i) ==
    IF i > Len(blocks) THEN <<>>
    ELSE LET start_page == blocks[i].page_no
             run == MergeAhead(blocks, i, blocks[i], start_page)
         IN  <<[run.block EXCEPT !.page_no = RunLocator(start_page, run.last_page)]>>
             \o MergeFrom(blocks, run.i + 1)

\* the list returned
merge_cross_page_blocks(blocks) ==
    IF blocks = <<>> THEN <<>> ELSE MergeFrom(blocks, 1)

\* The input list after the call. data[i].copy() is a shallow copy, so the
\* descriptor list that line 293 extends is the list of the input block that
\* starts the run; strings are immutable and are left as they were.
RECURSIVE DataAfterMergeFrom(_, _)
DataAfterMergeFrom(blocks, i) ==
    IF i > Len(blocks) THEN <<>>
    ELSE LET run == MergeAhead(blocks, i, blocks[i], blocks[i].page_no)
             first == IF blocks[i].content_type = "image"
                      THEN [blocks[i] EXCEPT !.page_content = run.block.page_content]
                      ELSE blocks[i]
         IN  <<first>> \o SubSeq(blocks, i + 1, run.i)
             \o DataAfterMergeFrom(blocks, run.i + 1)

DataAfterMerge(blocks) == DataAfterMergeFrom(blocks, 1)

----------------------------------------------------------------------------
(* The text splitter, MarkdownTextSplitter of langchain_text_splitters.     *)
(* Its code is not part of the repository; it is modelled after section 4.5 *)
(* of the specification for text without separators: a sliding window of   *)
(* chunk_size characters that repeats the last chunk_overlap characters.    *)

\* the constructor refuses an overlap larger than the chunk size
SplitterAccepts(chunk_size, chunk_overlap) ==
    chunk_size >= 1 /\ chunk_overlap >= 0 /\ chunk_overlap <= chunk_size

\* the window holds text[start..pos-1]; the character at pos comes next
RECURSIVE SplitWindows(_, _, _, _, _)
SplitWindows(text, chunk_size, chunk_overlap, start, pos) ==
    IF pos > Len(text)
    THEN IF start <= Len(text) THEN <<SubSeq(text, start, Len(text))>> ELSE <<>>
    ELSE IF pos - start >= chunk_size
    THEN <<SubSeq(text, start, pos - 1)>>
         \o SplitWindows(text, chunk_size, chunk_overlap,
                         pos - Min(chunk_overlap, chunk_size - 1), pos + 1)
    ELSE SplitWindows(text, chunk_size, chunk_overlap, start, pos + 1)

\* units are stripped, and a unit that strips to nothing is dropped
RECURSIVE StripUnits(_)
StripUnits(units) ==
    IF units = <<>> THEN <<>>
    ELSE (IF Strip(Head(units)) = <<>> THEN <<>> ELSE <<Strip(Head(units))>>)
         \o StripUnits(Tail(units))

split_text(text, chunk_size, chunk_overlap) ==
    StripUnits(SplitWindows(text, chunk_size, chunk_overlap, 1, 1))

----------------------------------------------------------------------------
(* DocumentChunker.process_data, chunker.py:92-194 *)

\* the file_id argument of process_data
file_id == <<"f", "1">>

\* the values str(uuid.uuid4()) can return
UUIDs == {<<"u", "1">>, <<"u", "2">>}

\* x or default, for a str or None
StrOr(x, default) == IF x = None \/ x = Missing \/ x = <<>> THEN default ELSE x

\* a page_no that is None (or missing)
NoPage == [t |-> "none", n |-> 0, s |-> <<>>]

\* line 120: entry.get("page_no") or "0"
PageOrZero(p) ==
    IF p.t = "none" \/ (p.t = "int" /\ p.n = 0) \/ (p.t = "str" /\ p.s = <<>>)
    THEN PStr(<<"0">>) ELSE p

\* str.isalnum() on the characters of the model
Alnum == {"a", "b", "c", "d", "o"} \cup {Digits[i] : i \in 1..10}

\* a replacement that drops the dots
NotDot(c) == c # "."
ReplaceDotsDropped(str) == SelectSeq(str, NotDot)

\* line 118: str.replace(".", "_")
ReplaceDots(str) == [i \in 1..Len(str) |-> IF str[i] = "." THEN "_" ELSE str[i]]

\* line 119: keep alphanumerics, '_' and '-'
IsSlugChar(c) == c \in Alnum \/ c \in {"_", "-"}
CleanTitle(raw_title) == SelectSeq(ReplaceDots(raw_title), IsSlugChar)

\* line 123: page_key = f"{clean_title}_{page_no}"
PageKey(entry) ==
    CleanTitle(StrOr(entry.title, <<"d", "o", "c">>)) \o <<"_">>
    \o PyStr(PageOrZero(entry.page_no))

\* an ordinal that does not consult the counter of the page
ElementIndexAlwaysOne(counters, page_key) == 1

\* line 124: page_counters.get(page_key, 1)
ElementIndex(counters, page_key) ==
    IF page_key \in DOMAIN counters THEN counters[page_key] ELSE 1

\* a counter update that advances the counters of the other keys as well
CountersAfterAllKeys(counters, page_key) ==
    [k \in DOMAIN counters \cup {page_key} |->
        IF k = page_key THEN ElementIndex(counters, page_key) + 1
        ELSE counters[k] + 1]

\* line 125: page_counters[page_key] = element_index + 1
CountersAfter(counters, page_key) ==
    [k \in DOMAIN counters \cup {page_key} |->
        IF k = page_key THEN ElementIndex(counters, page_key) + 1
        ELSE counters[k]]

\* line 126: id_prefix = f"{clean_title}_{page_no}_{element_index}"
IdPrefix(entry, counters) ==
    PageKey(entry) \o <<"_">> \o IntStr(ElementIndex(counters, PageKey(entry)))

\* a formatter that gives every unit a parent id of its own
format_text_chunks_parent_per_unit(raw_chunks_list, parent_id, id_prefix, title, content_type, sourcepage, category, fid) ==
    [index \in 1..Len(raw_chunks_list) |->
        [id |-> id_prefix \o <<"_">> \o IntStr(index),
         parent_id |-> parent_id \o <<"_">> \o IntStr(index),
         file_id |-> fid,
         title |-> title,
         chunk_type |-> content_type,
         sourcepage |-> sourcepage,
         category |-> category,
         content |-> raw_chunks_list[index]]]

\* a formatter that numbers the units of a block from 0
format_text_chunks_from_zero(raw_chunks_list, parent_id, id_prefix, title, content_type, sourcepage, category, fid) ==
    [index \in 1..Len(raw_chunks_list) |->
        [id |-> id_prefix \o <<"_">> \o IntStr(index - 1),
         parent_id |-> parent_id,
         file_id |-> fid,
         title |-> title,
         chunk_type |-> content_type,
         sourcepage |-> sourcepage,
         category |-> category,
         content |-> raw_chunks_list[index]]]

\* lines 52-70: _format_text_chunks
format_text_chunks(raw_chunks_list, parent_id, id_prefix, title, content_type, sourcepage, category, fid) ==
    [index \in 1..Len(raw_chunks_list) |->
        [id |-> id_prefix \o <<"_">> \o IntStr(index),
         parent_id |-> parent_id,
         file_id |-> fid,
         title |-> title,
         chunk_type |-> content_type,
         sourcepage |-> sourcepage,
         category |-> category,
         content |-> raw_chunks_list[index]]]

\* a formatter that walks the image list from its end
format_image_chunks_reversed(image_list, parent_id, id_prefix, title, content_type, sourcepage, category, fid) ==
    [index \in 1..Len(image_list) |->
        [id |-> id_prefix \o <<"_">> \o IntStr(index),
         parent_id |-> parent_id,
         file_id |-> fid,
         title |-> title,
         chunk_type |-> content_type,
         sourcepage |-> sourcepage,
         category |-> category,
         content |-> IF image_list[Len(image_list) + 1 - index].image_description = Missing
                     THEN <<>>
                     ELSE image_list[Len(image_list) + 1 - index].image_description,
         width |-> image_list[Len(image_list) + 1 - index].width,
         height |-> image_list[Len(image_list) + 1 - index].height]]

\* lines 72-90: _format_image_chunks, for a list of dicts
format_image_chunks(image_list, parent_id, id_prefix, title, content_type, sourcepage, category, fid) ==
    [index \in 1..Len(image_list) |->
        [id |-> id_prefix \o <<"_">> \o IntStr(index),
         parent_id |-> parent_id,
         file_id |-> fid,
         title |-> title,
         chunk_type |-> content_type,
         sourcepage |-> sourcepage,
         category |-> category,
         content |-> IF image_list[index].image_description = Missing
                     THEN <<>> ELSE image_list[index].image_description,
         width |-> image_list[index].width,
         height |-> image_list[index].height]]

\* img_obj.get raises AttributeError on a list member that is not a dict
ImageListRaises(image_list) ==
    \E index \in 1..Len(image_list) : image_list[index].pytype # "dict"

\* a builder that passes a blank text block on as one unit
EntryChunksBlankKept(cfg, entry, counters) ==
    LET parent_id == entry.element_id
        content_type == entry.content_type
        category == StrOr(entry.category, None)
        content == entry.page_content
        sourcepage == StrOr(entry.sourcepage, None)
        raw_title == StrOr(entry.title, <<"d", "o", "c">>)
        id_prefix == IdPrefix(entry, counters)
        nothing == [raised |-> FALSE, chunks |-> <<>>]
        failed == [raised |-> TRUE, chunks |-> <<>>]
    IN  IF content_type = "text" /\ entry.content_is = "str"
        THEN IF Strip(content) = <<>>
             THEN [raised |-> FALSE,
                   chunks |-> format_text_chunks(
                       <<content>>, parent_id, id_prefix, raw_title,
                       content_type, sourcepage, category, file_id)]
             ELSE [raised |-> FALSE,
                   chunks |-> format_text_chunks(
                       split_text(content, cfg.chunk_size, cfg.chunk_overlap),
                       parent_id, id_prefix, raw_title, content_type,
                       sourcepage, category, file_id)]
        ELSE IF content_type = "table" /\ entry.content_is = "str"
        THEN IF Strip(content) = <<>> THEN nothing
             ELSE IF chunk_markdown_table(content, cfg.max_table_rows).raised
             THEN failed
             ELSE [raised |-> FALSE,
                   chunks |-> format_text_chunks(
                       chunk_markdown_table(content, cfg.max_table_rows).chunks,
                       parent_id, id_prefix, raw_title, content_type,
                       sourcepage, category, file_id)]
        ELSE IF content_type = "image" /\ entry.content_is = "list"
        THEN IF content = <<>> THEN nothing
             ELSE IF ImageListRaises(content) THEN failed
             ELSE [raised |-> FALSE,
                   chunks |-> format_image_chunks(
                       content, parent_id, id_prefix, raw_title, content_type,
                       sourcepage, category, file_id)]
        ELSE nothing

\* lines 129-170: the chunks of one entry (a dict whose element_id is set),
\* and whether the body of the try raised before reaching line 170
EntryChunks(cfg, entry, counters) ==
    LET parent_id == entry.element_id
        content_type == entry.content_type
        category == StrOr(entry.category, None)
        content == entry.page_content
        sourcepage == StrOr(entry.sourcepage, None)
        raw_title == StrOr(entry.title, <<"d", "o", "c">>)
        id_prefix == IdPrefix(entry, counters)
        nothing == [raised |-> FALSE, chunks |-> <<>>]
        failed == [raised |-> TRUE, chunks |-> <<>>]
    IN  IF content_type = "text" /\ entry.content_is = "str"
        THEN IF Strip(content) = <<>> THEN nothing
             ELSE [raised |-> FALSE,
                   chunks |-> format_text_chunks(
                       split_text(content, cfg.chunk_size, cfg.chunk_overlap),
                       parent_id, id_prefix, raw_title, content_type,
                       sourcepage, category, file_id)]
        ELSE IF content_type = "table" /\ entry.content_is = "str"
        THEN IF Strip(content) = <<>> THEN nothing
             ELSE IF chunk_markdown_table(content, cfg.max_table_rows).raised
             THEN failed
             ELSE [raised |-> FALSE,
                   chunks |-> format_text_chunks(
                       chunk_markdown_table(content, cfg.max_table_rows).chunks,
                       parent_id, id_prefix, raw_title, content_type,
                       sourcepage, category, file_id)]
        ELSE IF content_type = "image" /\ entry.content_is = "list"
        THEN IF content = <<>> THEN nothing
             ELSE IF ImageListRaises(content) THEN failed
             ELSE [raised |-> FALSE,
                   chunks |-> format_image_chunks(
                       content, parent_id, id_prefix, raw_title, content_type,
                       sourcepage, category, file_id)]
        ELSE nothing

\* a neighbour pass whose test for a next chunk stops one chunk early
NeighboursOffByOne(chunks, i) ==
    (IF i > 1 THEN <<chunks[i - 1].id>> ELSE <<>>)
    \o (IF i < Len(chunks) - 1 THEN <<chunks[i + 1].id>> ELSE <<>>)

\* lines 179-191: the neighbour list of the chunk at position i (1-based)
Neighbours(chunks, i) ==
    (IF i > 1 THEN <<chunks[i - 1].id>> ELSE <<>>)
    \o (IF i < Len(chunks) THEN <<chunks[i + 1].id>> ELSE <<>>)

----------------------------------------------------------------------------
(* Idle values of the components a specification does not exercise *)

IdleTable == markdown_text = <<>> /\ table_chunks = <<>> /\ tpc = "idle"
IdleGroup ==
    /\ items = <<>> /\ item_idx = 0 /\ current_page = 0 /\ current_type = "idle"
    /\ current_content_buffer = <<>> /\ output_data = <<>> /\ gpc = "idle"
IdleMerge ==
    /\ merge_data = <<>> /\ merged_data = <<>> /\ merged_again = <<>>
    /\ mpc = "idle" /\ merge_input = <<>>
IdleChunk ==
    /\ source_data = <<>> /\ data = <<>> /\ entry_idx = 0
    /\ page_counters = <<>> /\ all_chunks = <<>>
    /\ cpc = "idle" /\ run_no = 0 /\ first_chunks = <<>>
IdleShared == workers = <<>> /\ calls = 0
IdleStore ==
    /\ store_chunks = <<>> /\ documents = <<>> /\ store_ids = <<>>
    /\ collection = {} /\ spc = "idle"
IdleStatus == upload_dir = <<>> /\ processing_status = <<>> /\ issued = {}

----------------------------------------------------------------------------
(* Specification of the table splitter on its own *)

\* lines a table content is made of: rows, a row with surrounding blanks,
\* a non-row line and an empty line
TableLines == {<<"|", "a">>, <<"|", "b">>, <<" ", "|", "c", " ">>, <<"x">>, <<>>}

TableTexts ==
    {Join(ls, <<NL>>) : ls \in UNION {[1..n -> TableLines] : n \in 0..MaxLines}}

\* max_table_rows as a caller can pass it, valid or not
TableRowSettings == (-1)..MaxRowsCfg

InitTable ==
    /\ self \in {[chunk_size |-> 300, chunk_overlap |-> 80, max_table_rows |-> m] :
                    m \in TableRowSettings}
    /\ markdown_text \in TableTexts
    /\ table_chunks = <<>>
    /\ tpc = "call"
    /\ IdleGroup /\ IdleMerge /\ IdleChunk /\ IdleShared
    /\ IdleStore /\ IdleStatus

\* one call of _chunk_markdown_table that returns
ChunkTableReturn ==
    /\ tpc = "call"
    /\ ~chunk_markdown_table(markdown_text, self.max_table_rows).raised
    /\ table_chunks' = chunk_markdown_table(markdown_text, self.max_table_rows).chunks
    /\ tpc' = "returned"
    /\ UNCHANGED <<self, markdown_text, gvars, mvars, cvars, wvars, svars, pvars>>

\* one call of _chunk_markdown_table that raises ValueError
ChunkTableRaise ==
    /\ tpc = "call"
    /\ chunk_markdown_table(markdown_text, self.max_table_rows).raised
    /\ tpc' = "raised"
    /\ UNCHANGED <<self, markdown_text, table_chunks, gvars, mvars, cvars, wvars, svars, pvars>>

NextTable == ChunkTableReturn \/ ChunkTableRaise

SpecTable == InitTable /\ [][NextTable]_vars

----------------------------------------------------------------------------
(* Specification of the block grouping engine on its own *)

NoTable == [outcome |-> "none", markdown |-> <<>>]
NoImage == [outcome |-> "none", name |-> "", width |-> 0, height |-> 0]

TextLike(cls, prov, text, level) ==
    [cls |-> cls, prov |-> prov, text |-> text, level |-> level,
     table |-> NoTable, image |-> NoImage]
Table(prov, outcome, markdown) ==
    [cls |-> "TableItem", prov |-> prov, text |-> None, level |-> <<>>,
     table |-> [outcome |-> outcome, markdown |-> markdown], image |-> NoImage]
Picture(prov, outcome, width, height) ==
    [cls |-> "PictureItem", prov |-> prov, text |-> None, level |-> <<>>,
     table |-> NoTable,
     image |-> [outcome |-> outcome, name |-> "png", width |-> width,
                height |-> height]]

\* provenance: none (page -1), page 1, page 2
Provs == {<<>>, <<1>>, <<2>>}

\* The items doc.iterate_items() can yield. Items that add content come on
\* every page; blank, unknown, malformed, empty and filtered items on page 1.
GroupItems ==
    {TextLike("TextItem", pr, <<"a">>, <<>>) : pr \in Provs}
    \cup {Table(pr, "frame", <<"|", "t">>) : pr \in Provs}
    \cup {Picture(pr, "image", 300, 300) : pr \in Provs}
    \cup {TextLike("TextItem", <<1>>, <<"b">>, <<>>),
          TextLike("TextItem", <<1>>, <<" ">>, <<>>),
          TextLike("TextItem", <<1>>, None, <<>>),
          TextLike("SectionHeaderItem", <<1>>, <<"h", " ">>, <<1>>),
          TextLike("SectionHeaderItem", <<1>>, <<"h">>, <<>>),
          TextLike("ListItem", <<1>>, <<"b">>, <<>>),
          TextLike("GroupItem", <<1>>, None, <<>>),
          Table(<<1>>, "empty", <<>>),
          Table(<<1>>, "raise", <<>>),
          Picture(<<1>>, "image", 100, 300),
          Picture(<<1>>, "none", 0, 0),
          Picture(<<1>>, "raise", 0, 0)}

InitGroup ==
    /\ self = None
    /\ items \in UNION {[1..n -> GroupItems] : n \in 0..MaxItems}
    /\ item_idx = 0
    /\ current_page = -1
    /\ current_type = "None"
    /\ current_content_buffer = <<>>
    /\ output_data = <<>>
    /\ gpc = "iterate"
    /\ IdleTable /\ IdleMerge /\ IdleChunk /\ IdleShared
    /\ IdleStore /\ IdleStatus

\* one pass of the for loop of line 164 that an item does not break
IterateItem ==
    /\ gpc = "iterate"
    /\ item_idx < Len(items)
    /\ LET item == items[item_idx + 1]
           item_page == ItemPage(item)
           item_type == ItemType(item)
           changed == item_page # current_page \/ item_type # current_type
       IN  /\ ~ItemRaises(item)
           /\ item_idx' = item_idx + 1
           /\ IF item_type = "skip"
              THEN UNCHANGED <<current_page, current_type,
                               current_content_buffer, output_data>>
              ELSE /\ output_data' =
                        IF changed
                        THEN flush_buffer(output_data, current_page,
                                          current_type, current_content_buffer)
                        ELSE output_data
                   /\ current_page' = item_page
                   /\ current_type' = item_type
                   /\ current_content_buffer' =
                        (IF changed THEN <<>> ELSE current_content_buffer)
                        \o ItemUnits(item, item_type, item_page)
    /\ UNCHANGED <<self, items, gpc, tvars, mvars, cvars, wvars, svars, pvars>>

\* an item whose classification raises: lines 259-262 print the error and
\* return output_data as it is, with no final flush and no sort
IterateRaise ==
    /\ gpc = "iterate"
    /\ item_idx < Len(items)
    /\ ItemRaises(items[item_idx + 1])
    /\ gpc' = "failed"
    /\ UNCHANGED <<self, items, item_idx, current_page, current_type,
                   current_content_buffer, output_data, tvars, mvars, cvars, wvars, svars, pvars>>

\* lines 253-262: the final flush, the sort by page and the return
FinalFlush ==
    /\ gpc = "iterate"
    /\ item_idx = Len(items)
    /\ output_data' = SortByPage(flush_buffer(output_data, current_page,
                                              current_type, current_content_buffer))
    /\ gpc' = "returned"
    /\ UNCHANGED <<self, items, item_idx, current_page, current_type,
                   current_content_buffer, tvars, mvars, cvars, wvars, svars, pvars>>

NextGroup == IterateItem \/ IterateRaise \/ FinalFlush

SpecGroup == InitGroup /\ [][NextGroup]_vars

----------------------------------------------------------------------------
(* Specification of the cross-page merger on its own *)

\* locators of the blocks handed in: pages from the grouping engine and a
\* range from an earlier merge
MergePages == {PInt(1), PInt(2), PStr(<<"1", "-", "2">>)}

MergeBlocks ==
    {Block(p, "text", c) : p \in MergePages, c \in {<<"a">>, <<"b">>}}
    \cup {Block(p, "table", <<"|", "t">>) : p \in MergePages}
    \cup {Block(p, "image", <<ImageData("png", 300, 300, 1)>>) : p \in MergePages}

InitMerge ==
    /\ self = None
    /\ merge_data \in UNION {[1..n -> MergeBlocks] : n \in 0..MaxMergeBlocks}
    /\ merge_input = merge_data
    /\ merged_data = <<>>
    /\ merged_again = <<>>
    /\ mpc = "call"
    /\ IdleTable /\ IdleGroup /\ IdleChunk /\ IdleShared
    /\ IdleStore /\ IdleStatus

\* merged_data = merge_cross_page_blocks(data)
MergeOnce ==
    /\ mpc = "call"
    /\ merged_data' = merge_cross_page_blocks(merge_data)
    /\ merge_data' = DataAfterMerge(merge_data)
    /\ mpc' = "merged"
    /\ UNCHANGED <<self, merged_again, merge_input, tvars, gvars, cvars, wvars, svars, pvars>>

\* the merger run on its own output
MergeAgain ==
    /\ mpc = "merged"
    /\ merged_again' = merge_cross_page_blocks(merged_data)
    /\ merged_data' = DataAfterMerge(merged_data)
    /\ mpc' = "again"
    /\ UNCHANGED <<self, merge_data, merge_input, tvars, gvars, cvars, wvars, svars, pvars>>

NextMerge == MergeOnce \/ MergeAgain

SpecMerge == InitMerge /\ [][NextMerge]_vars

----------------------------------------------------------------------------
(* Specification of the chunk builder on its own *)

\* a block as parse_pdf hands it over (PDFParser.py:329-339), or as a JSON
\* file supplies it
Entry(title, page_no, content_type, content_is, page_content, element_id) ==
    [pytype |-> "dict", title |-> title, page_no |-> page_no,
     content_type |-> content_type, content_is |-> content_is,
     page_content |-> page_content, element_id |-> element_id,
     category |-> IF title = None THEN Missing ELSE <<"p", "d", "f">>,
     sourcepage |-> IF title = None THEN Missing ELSE <<"s">>]

\* a list member that is no dict (JSON null)
NullEntry == [pytype |-> "NoneType"]

Described(description) ==
    [pytype |-> "dict", image_description |-> description,
     width |-> 300, height |-> 300]
NotADict == [pytype |-> "str"]

\* titles and page locators: two titles with one slug on one page, a title
\* with a character the slug drops on a page range, no title on page 0, the
\* title "doc" without a page, and two titles of which one continues the
\* other with "_1"
TitlePages ==
    {<<<<"a", ".", "b">>, PInt(1)>>,
     <<<<"a", "_", "b">>, PInt(1)>>,
     <<<<"a", "/", "b">>, PStr(<<"1", "-", "2">>)>>,
     <<None, PInt(0)>>,
     <<<<"d", "o", "c">>, NoPage>>,
     <<<<"a">>, PInt(1)>>,
     <<<<"a", "_", "1">>, PInt(1)>>}

\* the titles and pages that tables and images come with
FewTitlePages == {<<<<"a", ".", "b">>, PInt(1)>>, <<None, PInt(0)>>}

\* a table of two header rows and two data rows
SmallTable == Join(<<<<"|", "h">>, <<"|", "-">>, <<"|", "1">>, <<"|", "2">>>>, <<NL>>)

ChunkEntries ==
    {Entry(tp[1], tp[2], "text", "str", <<"a", "b", "c", "d", "e">>, Missing) :
        tp \in TitlePages}
    \cup {Entry(tp[1], tp[2], "table", "str", SmallTable, Missing) :
        tp \in FewTitlePages}
    \cup {Entry(tp[1], tp[2], "image", "list",
                <<Described(<<"d">>), Described(Missing)>>, Missing) :
        tp \in FewTitlePages}
    \cup {Entry(<<"a", ".", "b">>, PInt(1), "text", "str", <<" ">>, Missing),
          Entry(<<"a", ".", "b">>, PInt(1), "text", "str", <<>>, Missing),
          Entry(<<>>, PInt(1), "text", "str", <<"a", "b">>, <<"e", "1">>),
          Entry(<<"a", ".", "b">>, PInt(1), "chart", "str", <<"c">>, Missing),
          Entry(<<"a", ".", "b">>, PInt(1), "image", "list",
                <<Described(<<"d">>), NotADict>>, Missing),
          NullEntry}

\* configurations a caller can pass to DocumentChunker
ChunkerConfigs ==
    {[chunk_size |-> 3, chunk_overlap |-> 1, max_table_rows |-> m] :
        m \in {-1, 0, 1, 2}}
    \cup {[chunk_size |-> 2, chunk_overlap |-> 3, max_table_rows |-> 1]}

InitChunkWith(configs, entries) ==
    /\ self \in configs
    /\ source_data \in UNION {[1..n -> entries] : n \in 0..MaxBlocks}
    /\ data = source_data
    /\ entry_idx = 0
    /\ page_counters = <<>>
    /\ all_chunks = <<>>
    /\ cpc = "new"
    /\ run_no = 1
    /\ first_chunks = <<>>
    /\ IdleTable /\ IdleGroup /\ IdleMerge /\ IdleShared
    /\ IdleStore /\ IdleStatus

InitChunk == InitChunkWith(ChunkerConfigs, ChunkEntries)

\* DocumentChunker.__init__ returns: the splitter took the configuration
Construct ==
    /\ cpc = "new"
    /\ SplitterAccepts(self.chunk_size, self.chunk_overlap)
    /\ cpc' = "loop"
    /\ UNCHANGED <<self, source_data, data, entry_idx, page_counters, all_chunks,
                   run_no, first_chunks, tvars, gvars, mvars, wvars, svars, pvars>>

\* DocumentChunker.__init__ raises the ValueError of the splitter
ConstructRaise ==
    /\ cpc = "new"
    /\ ~SplitterAccepts(self.chunk_size, self.chunk_overlap)
    /\ cpc' = "rejected"
    /\ UNCHANGED <<self, source_data, data, entry_idx, page_counters, all_chunks,
                   run_no, first_chunks, tvars, gvars, mvars, wvars, svars, pvars>>

\* lines 104-174: one pass of the loop over data, for an entry that is a
\* dict; an exception of the body is caught at line 172
ProcessEntry ==
    /\ cpc = "loop"
    /\ entry_idx < Len(data)
    /\ data[entry_idx + 1].pytype = "dict"
    /\ \E uuid \in UUIDs :
          LET entry == IF data[entry_idx + 1].element_id = Missing
                       THEN [data[entry_idx + 1] EXCEPT !.element_id = uuid]
                       ELSE data[entry_idx + 1]
          IN  /\ data' = [data EXCEPT ![entry_idx + 1] = entry]
              /\ page_counters' = CountersAfter(page_counters, PageKey(entry))
              /\ all_chunks' =
                    all_chunks \o EntryChunks(self, entry, page_counters).chunks
    /\ entry_idx' = entry_idx + 1
    /\ UNCHANGED <<self, source_data, cpc, run_no, first_chunks,
                   tvars, gvars, mvars, wvars, svars, pvars>>

\* an entry that is no dict: line 107 raises, and the handler of line 173
\* raises again on entry.get, so the exception leaves process_data
ProcessEntryRaise ==
    /\ cpc = "loop"
    /\ entry_idx < Len(data)
    /\ data[entry_idx + 1].pytype # "dict"
    /\ cpc' = "raised"
    /\ UNCHANGED <<self, source_data, data, entry_idx, page_counters, all_chunks,
                   run_no, first_chunks, tvars, gvars, mvars, wvars, svars, pvars>>

\* lines 176-194: the neighbour pass and the return
AddNeighbours ==
    /\ cpc = "loop"
    /\ entry_idx = Len(data)
    /\ all_chunks' = [i \in 1..Len(all_chunks) |->
                         all_chunks[i] @@ [neighbour |-> Neighbours(all_chunks, i)]]
    /\ cpc' = "returned"
    /\ UNCHANGED <<self, source_data, data, entry_idx, page_counters,
                   run_no, first_chunks, tvars, gvars, mvars, wvars, svars, pvars>>

NextChunk ==
    Construct \/ ConstructRaise \/ ProcessEntry \/ ProcessEntryRaise
    \/ AddNeighbours

SpecChunk == InitChunk /\ [][NextChunk]_vars

----------------------------------------------------------------------------
(* Specification of two runs of the chunk builder on identical input *)

TwiceEntries ==
    {Entry(<<"a", ".", "b">>, PInt(1), "text", "str",
           <<"a", "b", "c", "d", "e">>, Missing),
     Entry(<<"a", ".", "b">>, PInt(1), "text", "str", <<"a", "b">>, <<"e", "1">>),
     Entry(<<"a", ".", "b">>, PInt(2), "table", "str", SmallTable, Missing),
     Entry(None, PInt(0), "image", "list",
           <<Described(<<"d">>), Described(Missing)>>, Missing)}

InitTwice ==
    InitChunkWith({[chunk_size |-> 3, chunk_overlap |-> 1, max_table_rows |-> m] :
                      m \in {1, 2}}, TwiceEntries)

\* process_data is called again, on the list of the first call or on an
\* identical copy of what the first call was given
SecondRun ==
    /\ cpc = "returned"
    /\ run_no = 1
    /\ first_chunks' = all_chunks
    /\ \E again \in {data, source_data} : data' = again
    /\ entry_idx' = 0
    /\ page_counters' = <<>>
    /\ all_chunks' = <<>>
    /\ run_no' = 2
    /\ cpc' = "loop"
    /\ UNCHANGED <<self, source_data, tvars, gvars, mvars, wvars, svars, pvars>>

NextTwice == Construct \/ ProcessEntry \/ AddNeighbours \/ SecondRun

SpecTwice == InitTwice /\ [][NextTwice]_vars

----------------------------------------------------------------------------
(* Specification of process_data calls that run at the same time on the     *)
(* one DocumentChunker of main.py:52, each on the blocks of its own         *)
(* document (main.py:182)                                                   *)

Workers == {1, 2}

\* the blocks of the documents the workers are given: a text block without
\* element_id, a table and a short text block, on pages 1 and 2 of "a.b"
SharedText == Entry(<<"a", ".", "b">>, PInt(1), "text", "str", <<"a", "b", "c", "d", "e">>, Missing)
SharedTable == Entry(<<"a", ".", "b">>, PInt(1), "table", "str", SmallTable, <<"e", "1">>)
SharedShort == Entry(<<"a", ".", "b">>, PInt(2), "text", "str", <<"a", "b">>, <<"e", "2">>)

SharedDocuments ==
    {<<SharedText>>, <<SharedText, SharedTable>>, <<SharedTable, SharedText>>,
     <<SharedShort, SharedTable>>, <<SharedTable, SharedTable>>}

\* chunker.py:98-102: all_chunks and page_counters are locals of the call
NewCall(blocks) ==
    [data |-> blocks, entry_idx |-> 0, page_counters |-> <<>>,
     all_chunks |-> <<>>, cpc |-> "loop"]

NoCall == [NewCall(<<>>) EXCEPT !.cpc = "idle"]

\* the counters a call looks its ordinal up in, and the same when the
\* counters are kept where every call can reach them
CallCountersOfInstance(ws, w) == ws[1].page_counters
CallCounters(ws, w) == ws[w].page_counters

InitShared ==
    /\ self = [chunk_size |-> 3, chunk_overlap |-> 1, max_table_rows |-> 1]
    /\ workers = [w \in Workers |-> NoCall]
    /\ calls = 0
    /\ IdleTable /\ IdleGroup /\ IdleMerge /\ IdleChunk
    /\ IdleStore /\ IdleStatus

\* a worker enters process_data with the blocks of its document
StartCall(w) ==
    /\ workers[w].cpc \in {"idle", "returned"}
    /\ calls < MaxCalls
    /\ \E blocks \in SharedDocuments :
          workers' = [workers EXCEPT ![w] = NewCall(blocks)]
    /\ calls' = calls + 1
    /\ UNCHANGED <<self, tvars, gvars, mvars, cvars, svars, pvars>>

\* chunker.py:104-174: one pass of the loop of the call of worker w
CallEntry(w) ==
    /\ workers[w].cpc = "loop"
    /\ workers[w].entry_idx < Len(workers[w].data)
    /\ \E uuid \in UUIDs :
          LET given == workers[w].data[workers[w].entry_idx + 1]
              entry == IF given.element_id = Missing
                       THEN [given EXCEPT !.element_id = uuid] ELSE given
              counters == CallCounters(workers, w)
          IN  workers' = [workers EXCEPT
                  ![w].data[workers[w].entry_idx + 1] = entry,
                  ![w].page_counters = CountersAfter(counters, PageKey(entry)),
                  ![w].all_chunks = @ \o EntryChunks(self, entry, counters).chunks,
                  ![w].entry_idx = @ + 1]
    /\ UNCHANGED <<self, calls, tvars, gvars, mvars, cvars, svars, pvars>>

\* chunker.py:176-194: the neighbour pass and the return of the call
CallReturn(w) ==
    /\ workers[w].cpc = "loop"
    /\ workers[w].entry_idx = Len(workers[w].data)
    /\ workers' = [workers EXCEPT
            ![w].all_chunks =
                [i \in 1..Len(@) |-> @[i] @@ [neighbour |-> Neighbours(@, i)]],
            ![w].cpc = "returned"]
    /\ UNCHANGED <<self, calls, tvars, gvars, mvars, cvars, svars, pvars>>

NextShared == \E w \in Workers : StartCall(w) \/ CallEntry(w) \/ CallReturn(w)

SpecShared == InitShared /\ [][NextShared]_vars

----------------------------------------------------------------------------
(* Specification of the store: process_file step 3 (main.py:198-213) and
   ChromaDBManager.add_documents (chromadb.py:72-115) *)

\* the descriptions the images of a block come with: none, "d", "e"
StoreDescriptions == {Missing, <<"d">>, <<"e">>}

\* the chunk list process_data returns for one image block of a document
\* without title, on page 1
StoreChunksOf(image_list) ==
    LET chunks == format_image_chunks(
                      image_list, <<"e", "1">>, <<"d", "o", "c", "_", "1", "_", "1">>,
                      <<"d", "o", "c">>, "image", <<"s">>, <<"p", "d", "f">>,
                      file_id)
    IN  [i \in 1..Len(chunks) |->
            chunks[i] @@ [neighbour |-> Neighbours(chunks, i)]]

\* main.py:200-209: the Document of a chunk; the content becomes the
\* page_content, the other fields the metadata, the neighbour list joined
Document(chunk) ==
    [page_content |-> chunk.content,
     metadata |-> [id |-> chunk.id, parent_id |-> chunk.parent_id,
                   file_id |-> chunk.file_id, title |-> chunk.title,
                   chunk_type |-> chunk.chunk_type,
                   sourcepage |-> chunk.sourcepage,
                   category |-> chunk.category,
                   width |-> chunk.width, height |-> chunk.height,
                   neighbour |-> Join(chunk.neighbour, <<",", " ">>)]]

\* chromadb.py:66-70: the SHA-256 of the content, a function of the content
\* alone; two contents are taken never to collide
generate_deterministic_id(doc) == [sha256 |-> doc.page_content]

\* chromadb.py:87
BatchIds(docs) == [i \in 1..Len(docs) |-> generate_deterministic_id(docs[i])]

HasDuplicates(ids) ==
    \E i, j \in 1..Len(ids) : i # j /\ ids[i] = ids[j]

\* the records of a batch that collection.add can store: one per id that
\* the collection does not hold yet
Addable(coll, docs, ids) ==
    {[id |-> ids[i], document |-> docs[i].page_content,
      metadata |-> docs[i].metadata] :
        i \in {j \in 1..Len(docs) : \A held \in coll : held.id # ids[j]}}

InitStore ==
    /\ self = None
    /\ store_chunks \in
          {StoreChunksOf(image_list) :
              image_list \in UNION {[1..n -> {Described(d) : d \in StoreDescriptions}] :
                                       n \in 1..MaxDocs}}
    /\ documents = <<>>
    /\ store_ids = <<>>
    /\ collection = {}
    /\ spc = "chunked"
    /\ IdleTable /\ IdleGroup /\ IdleMerge /\ IdleChunk /\ IdleShared
    /\ IdleStatus

\* main.py:199-209: the chunk list is not empty (line 180 raises otherwise)
BuildDocuments ==
    /\ spc = "chunked"
    /\ documents' = [i \in 1..Len(store_chunks) |-> Document(store_chunks[i])]
    /\ spc' = "built"
    /\ UNCHANGED <<self, store_chunks, store_ids, collection, tvars, gvars,
                   mvars, cvars, wvars, pvars>>

\* chromadb.py:83-115, collection.add returns: the collection holds one
\* record per id, so of the documents of one id one is kept
AddDocuments ==
    /\ spc = "built"
    /\ store_ids' = BatchIds(documents)
    /\ \E added \in SUBSET Addable(collection, documents, BatchIds(documents)) :
          /\ \A rec \in Addable(collection, documents, BatchIds(documents)) :
                 \E kept \in added : kept.id = rec.id
          /\ \A r1, r2 \in added : r1.id = r2.id => r1 = r2
          /\ collection' = collection \cup added
    /\ spc' = "added"
    /\ UNCHANGED <<self, store_chunks, documents, tvars, gvars, mvars, cvars,
                   wvars, pvars>>

\* chromadb.py:104-115, collection.add rejects a batch that repeats an id
\* and add_documents raises again
AddDocumentsRaise ==
    /\ spc = "built"
    /\ HasDuplicates(BatchIds(documents))
    /\ store_ids' = BatchIds(documents)
    /\ spc' = "raised"
    /\ UNCHANGED <<self, store_chunks, documents, collection, tvars, gvars,
                   mvars, cvars, wvars, pvars>>

NextStore == BuildDocuments \/ AddDocuments \/ AddDocumentsRaise

SpecStore == InitStore /\ [][NextStore]_vars

----------------------------------------------------------------------------
(* Specification of processing_status under the requests of the API
   (main.py:61-84, 101-269, 414-446, 478-495). The handlers are coroutines
   that do not await between their writes of processing_status, so each
   request is one step. *)

\* the steps of the pipeline, in order
Steps == <<"upload", "parse", "chunk", "embed">>

\* the uuids upload_file can hand out
FileIds == 1..MaxFiles

\* an uploaded file: whether its content loads (main.py:157-172) and whether
\* process_data makes chunks of it (lines 178-181)
FileKinds ==
    {[loads |-> FALSE, chunks |-> FALSE],
     [loads |-> TRUE, chunks |-> FALSE],
     [loads |-> TRUE, chunks |-> TRUE]}

\* a dict without the key k
Without(dict, k) == [x \in DOMAIN dict \ {k} |-> dict[x]]

\* dict[k] = v
Assign(dict, k, v) == [x \in DOMAIN dict \cup {k} |-> IF x = k THEN v ELSE dict[x]]

\* main.py:71-84; details and timestamps are left out
update_status(status, fid, step, value) ==
    LET known == IF fid \in DOMAIN status THEN status
                 ELSE Assign(status, fid, [steps |-> <<>>, success |-> "unset"])
    IN  Assign(known, fid,
               [known[fid] EXCEPT !.steps = Assign(known[fid].steps, step, value)])

\* main.py:246-258: the except branch of process_file
process_failed(status, fid) ==
    LET current_status == IF fid \in DOMAIN status THEN status[fid].steps ELSE <<>>
        done(step) == step \in DOMAIN current_status
                      /\ current_status[step] = "completed"
        failed_step == IF ~done("parse") THEN "parse"
                       ELSE IF ~done("chunk") THEN "chunk" ELSE "embed"
        marked == update_status(status, fid, failed_step, "failed")
    IN  Assign(marked, fid, [marked[fid] EXCEPT !.success = "False"])

\* main.py:149-218: processing_status at the end of process_file, for a file
\* of the given kind and an embedding step that succeeds or raises
process_status(status, fid, kind, embeds) ==
    LET parsing == update_status(status, fid, "parse", "in_progress")
        parsed == update_status(parsing, fid, "parse", "completed")
        chunking == update_status(parsed, fid, "chunk", "in_progress")
        chunked == update_status(chunking, fid, "chunk", "completed")
        embedding == update_status(chunked, fid, "embed", "in_progress")
        embedded == update_status(embedding, fid, "embed", "completed")
    IN  IF ~kind.loads THEN process_failed(parsing, fid)
        ELSE IF ~kind.chunks THEN process_failed(chunking, fid)
        ELSE IF ~embeds THEN process_failed(embedding, fid)
        ELSE Assign(embedded, fid, [embedded[fid] EXCEPT !.success = "True"])

InitStatus ==
    /\ self = None
    /\ upload_dir = <<>>
    /\ processing_status = <<>>
    /\ issued = {}
    /\ IdleTable /\ IdleGroup /\ IdleMerge /\ IdleChunk /\ IdleShared
    /\ IdleStore

\* POST /upload/, main.py:101-127
upload_file ==
    /\ \E fid \in FileIds \ issued, kind \in FileKinds :
          /\ upload_dir' = Assign(upload_dir, fid, kind)
          /\ processing_status' =
                update_status(processing_status, fid, "upload", "completed")
          /\ issued' = issued \cup {fid}
    /\ UNCHANGED <<self, tvars, gvars, mvars, cvars, wvars, svars>>

\* POST /process/{file_id}, main.py:130-269, for a file that is found
process_file ==
    /\ \E fid \in DOMAIN upload_dir, embeds \in BOOLEAN :
          processing_status' =
              process_status(processing_status, fid, upload_dir[fid], embeds)
    /\ UNCHANGED <<self, upload_dir, issued, tvars, gvars, mvars, cvars, wvars,
                   svars>>

\* DELETE /files/{file_id}, main.py:414-446, for a file that is found; when
\* collection.delete raises, the file is gone and its status stays
delete_file ==
    /\ \E fid \in DOMAIN upload_dir, deleted \in BOOLEAN :
          /\ upload_dir' = Without(upload_dir, fid)
          /\ processing_status' =
                IF deleted THEN Without(processing_status, fid)
                ELSE processing_status
    /\ UNCHANGED <<self, issued, tvars, gvars, mvars, cvars, wvars, svars>>

\* DELETE /collection, main.py:478-495, when the store clears
clear_collection ==
    /\ processing_status' = <<>>
    /\ UNCHANGED <<self, upload_dir, issued, tvars, gvars, mvars, cvars, wvars,
                   svars>>

NextStatus == upload_file \/ process_file \/ delete_file \/ clear_collection

SpecStatus == InitStatus /\ [][NextStatus]_vars

----------------------------------------------------------------------------
(* Claims about the table splitter (SpecTable) *)

\* the row lines of a table content, read off the content line by line:
\* the lines that begin with a pipe once surrounding blanks are ignored
IsRowLine(line) == StartsWith(LStrip(line), "|")
RowLinesOf(text) ==
    LET ls == SelectSeq(Split(text, NL), IsRowLine)
    IN  [i \in 1..Len(ls) |-> Strip(ls[i])]
DataRowsOf(text) == SubSeq(RowLinesOf(text), 3, Len(RowLinesOf(text)))

\* the lines of one unit, and its data rows: the lines after the header pair
UnitLines(unit) == Split(unit, NL)
UnitDataRows(unit) == SubSeq(UnitLines(unit), 3, Len(UnitLines(unit)))

RECURSIVE ConcatDataRows(_)
ConcatDataRows(units) ==
    IF units = <<>> THEN <<>>
    ELSE UnitDataRows(Head(units)) \o ConcatDataRows(Tail(units))

\* C9: for a table content with at least two row lines and max_table_rows >= 1
\* the call returns, and the data rows of its units, concatenated in order
\* with each unit's two header rows dropped, are the original data rows.
C9_TableRoundTrip ==
    (/\ tpc # "call"
     /\ Len(RowLinesOf(markdown_text)) >= 2
     /\ self.max_table_rows >= 1)
    => /\ tpc = "returned"
       /\ ConcatDataRows(table_chunks) = DataRowsOf(markdown_text)

\* three data rows split one per unit, one of them written with blanks around
C9_Witness ==
    /\ tpc = "returned"
    /\ self.max_table_rows = 1
    /\ Len(DataRowsOf(markdown_text)) = 3
    /\ Len(table_chunks) = 3
    /\ \E l \in 1..Len(Split(markdown_text, NL)) :
           Split(markdown_text, NL)[l] = <<" ", "|", "c", " ">>

\* C10: n >= 1 data rows and max_table_rows = m >= 1 give ceil(n/m) units;
\* every unit is the header pair followed by 1..m data rows, and only the
\* last unit may hold fewer than m.
C10_TableUnitShape ==
    LET n == Len(DataRowsOf(markdown_text))
        m == self.max_table_rows
    IN  (tpc # "call" /\ n >= 1 /\ m >= 1)
        => /\ tpc = "returned"
           /\ Len(table_chunks) = (n + m - 1) \div m
           /\ \A k \in 1..Len(table_chunks) :
                 /\ Len(UnitLines(table_chunks[k])) >= 2
                 /\ SubSeq(UnitLines(table_chunks[k]), 1, 2)
                        = SubSeq(RowLinesOf(markdown_text), 1, 2)
                 /\ Len(UnitDataRows(table_chunks[k])) \in 1..m
                 /\ k < Len(table_chunks)
                        => Len(UnitDataRows(table_chunks[k])) = m

\* three data rows in groups of two: a full unit and a last unit of one row
C10_Witness ==
    /\ tpc = "returned"
    /\ self.max_table_rows = 2
    /\ Len(DataRowsOf(markdown_text)) = 3
    /\ Len(table_chunks) = 2
    /\ Len(UnitDataRows(table_chunks[1])) = 2
    /\ Len(UnitDataRows(table_chunks[2])) = 1

----------------------------------------------------------------------------
(* Claims about the cross-page merger (SpecMerge) *)

\* C8: the merger run on its own output returns that output: same blocks,
\* same page locators, same content, same order.
C8_MergeIdempotent == mpc = "again" => merged_again = merged_data

\* a list the first pass did shorten, into a block with a range locator
C8_Witness ==
    /\ mpc = "again"
    /\ Len(merged_data) < Len(merge_data)
    /\ Len(merged_data) >= 2
    /\ \E k \in 1..Len(merged_data) :
           merged_data[k].page_no = PStr(<<"1", "-", "2">>)
    /\ \A k \in 1..Len(merge_data) : merge_data[k].page_no.t = "int"

\* the first index of every maximal run of consecutive same-kind blocks
RunStarts(blocks) ==
    {i \in 1..Len(blocks) :
        i = 1 \/ blocks[i].content_type # blocks[i - 1].content_type}

\* the last index of the maximal run that starts at s
RunEnd(blocks, s) ==
    CHOOSE e \in s..Len(blocks) :
        /\ \A j \in s..e : blocks[j].content_type = blocks[s].content_type
        /\ e = Len(blocks) \/ blocks[e + 1].content_type # blocks[s].content_type

\* the start of the k-th run
KthStart(blocks, k) ==
    CHOOSE s \in RunStarts(blocks) :
        Cardinality({t \in RunStarts(blocks) : t <= s}) = k

\* the contents of blocks s..e in order, combined per kind
RECURSIVE RunContent(_, _, _)
RunContent(blocks, s, e) ==
    IF s >= e THEN blocks[s].page_content
    ELSE LET sep == CASE blocks[s].content_type = "text" -> <<NL, NL>>
                      [] blocks[s].content_type = "table" -> <<NL>>
                      [] OTHER -> <<>>
         IN  blocks[s].page_content \o sep \o RunContent(blocks, s + 1, e)

\* C11: the merger coalesces exactly the maximal runs of consecutive
\* same-kind blocks, whatever their pages: one output block per maximal run,
\* no two adjacent output blocks of the same kind, and each output block holds
\* the contents of its run in order, joined by a blank line for text, by a
\* newline for table, concatenated for image.
C11_MergeMaximalRuns ==
    mpc = "merged" =>
        /\ Len(merged_data) = Cardinality(RunStarts(merge_input))
        /\ \A k \in 1..(Len(merged_data) - 1) :
               merged_data[k].content_type # merged_data[k + 1].content_type
        /\ \A k \in 1..Len(merged_data) :
               LET s == KthStart(merge_input, k)
               IN  /\ merged_data[k].content_type = merge_input[s].content_type
                   /\ merged_data[k].page_content =
                          RunContent(merge_input, s, RunEnd(merge_input, s))

\* two text blocks of different pages become one block, the table after them
\* stays on its own
C11_Witness ==
    /\ mpc = "merged"
    /\ Len(merge_input) = 3
    /\ merge_input[1].page_no # merge_input[2].page_no
    /\ Len(merged_data) = 2
    /\ merged_data[1].content_type = "text"
    /\ merged_data[1].page_content = <<"a", NL, NL, "b">>
    /\ merged_data[2].content_type = "table"

\* C12: the page locator of a merged run is the single page value if and
\* only if all blocks of the run lie on one and the same page; a run that
\* spans more than one page gets the string "<first>-<last>" of the pages of
\* its first and last block.
C12_LocatorSingleIffOnePage ==
    mpc = "merged" =>
        \A k \in 1..Len(merged_data) :
            LET s == KthStart(merge_input, k)
                e == RunEnd(merge_input, s)
                pages == {merge_input[j].page_no : j \in s..e}
            IN  IF Cardinality(pages) = 1
                THEN merged_data[k].page_no = merge_input[s].page_no
                ELSE merged_data[k].page_no =
                        PStr(PyStr(merge_input[s].page_no) \o <<"-">>
                             \o PyStr(merge_input[e].page_no))

\* C14: merge_cross_page_blocks leaves its input as it was: after the call
\* the block list handed in, and every block in it (locator and content, the
\* descriptor list of an image block included), is unchanged.
C14_MergeLeavesInput == mpc = "merged" => merge_data = merge_input

----------------------------------------------------------------------------
(* Claims about the block grouping engine (SpecGroup) *)

\* the (page, kind) pairs of a block list, in list order
BlockPairs(blocks) ==
    [k \in 1..Len(blocks) |-> <<blocks[k].page_no, blocks[k].content_type>>]

\* an item the engine does not skip: of a known kind, not blank, and not an
\* empty table or a filtered or unloadable image
NotSkipped(item) ==
    /\ ItemType(item) # "skip"
    /\ ItemUnits(item, ItemType(item), ItemPage(item)) # <<>>

\* the distinct (page, kind) runs of an item sequence, in document order
RECURSIVE PairRuns(_)
PairRuns(its) ==
    IF its = <<>> THEN <<>>
    ELSE LET rest == PairRuns(Tail(its))
             pair == <<PInt(ItemPage(Head(its))), ItemType(Head(its))>>
         IN  IF rest # <<>> /\ Head(rest) = pair THEN rest ELSE <<pair>> \o rest

\* C2: the (page, kind) pairs of the emitted blocks, in emission order, are
\* the distinct (page, kind) runs of the non-skipped items in document order.
C2_GroupingKeepsOrder ==
    gpc = "returned"
    => BlockPairs(output_data) = PairRuns(SelectSeq(items, NotSkipped))

\* C7: every emitted block is non-empty: the content of a text block is not
\* blank once stripped, the descriptor list of an image block is not empty.
C7_BlocksNonEmpty ==
    \A k \in 1..Len(output_data) :
        /\ output_data[k].content_type = "text"
              => Strip(output_data[k].page_content) # <<>>
        /\ output_data[k].content_type = "image"
              => output_data[k].page_content # <<>>

\* a run of images that is filtered out whole and an empty table, between
\* blocks that are emitted
C7_Witness ==
    /\ gpc = "returned"
    /\ Len(items) = 3
    /\ items[1].cls = "PictureItem"
    /\ ItemUnits(items[1], "image", ItemPage(items[1])) = <<>>
    /\ items[2].cls = "TableItem" /\ items[2].table.outcome = "empty"
    /\ Len(output_data) = 1
    /\ output_data[1].content_type = "text"

\* an element the loop classifies: of a known kind and, if text-like, not
\* blank; the page and kind it is classified with
Classified(item) == ItemType(item) # "skip"
PageKind(item) == <<ItemPage(item), ItemType(item)>>

\* The runs of a sequence of classified elements: each run is a maximal
\* stretch of consecutive elements of one (page, kind), with the units of
\* its elements in order. run is the run being collected.
RECURSIVE RunsFrom(_, _)
RunsFrom(its, run) ==
    IF its = <<>> THEN <<run>>
    ELSE LET item == Head(its)
             units == ItemUnits(item, ItemType(item), ItemPage(item))
         IN  IF PageKind(item) = <<run.page, run.kind>>
             THEN RunsFrom(Tail(its), [run EXCEPT !.units = @ \o units])
             ELSE <<run>> \o RunsFrom(Tail(its),
                      [page |-> ItemPage(item), kind |-> ItemType(item),
                       units |-> units])

HasUnits(run) == run.units # <<>>

\* the runs of an element sequence that hold content
ContentRuns(its) ==
    SelectSeq(RunsFrom(SelectSeq(its, Classified),
                       [page |-> -1, kind |-> "None", units |-> <<>>]),
              HasUnits)

\* the units of a run combined per kind
CombinedUnits(kind, units) ==
    CASE kind = "text" -> Join(units, <<NL, NL>>)
      [] kind = "table" -> Join(units, <<NL>>)
      [] OTHER -> units

RunBlock(run) == Block(PInt(run.page), run.kind, CombinedUnits(run.kind, run.units))

\* two lists hold the same members the same number of times
SameMembers(a, b) ==
    /\ Len(a) = Len(b)
    /\ \A i \in 1..Len(a) :
           Cardinality({j \in 1..Len(a) : a[j] = a[i]})
               = Cardinality({j \in 1..Len(b) : b[j] = a[i]})

\* the blocks of output_data are the content runs of the elements iterated
\* so far, the run still in the buffer left out unless the run has returned
BlocksAreRuns ==
    LET runs == ContentRuns(SubSeq(items, 1, item_idx))
        blocks == [k \in 1..Len(runs) |-> RunBlock(runs[k])]
    IN  \/ gpc = "idle"
        \/ SameMembers(output_data, blocks)
        \/ /\ gpc # "returned"
           /\ blocks # <<>>
           /\ SameMembers(output_data, SubSeq(blocks, 1, Len(blocks) - 1))

\* one pass of the loop flushes and resets exactly when the element is
\* classified and its (page, kind) differs from the current one
FlushOnChange ==
    (gpc = "iterate" /\ item_idx' = item_idx + 1) =>
        LET item == items[item_idx + 1]
            units == ItemUnits(item, ItemType(item), ItemPage(item))
        IN  IF Classified(item) /\ PageKind(item) # <<current_page, current_type>>
            THEN /\ <<current_page', current_type'>> = PageKind(item)
                 /\ current_content_buffer' = units
                 /\ IF current_content_buffer = <<>>
                    THEN output_data' = output_data
                    ELSE /\ Len(output_data') = Len(output_data) + 1
                         /\ SubSeq(output_data', 1, Len(output_data)) = output_data
            ELSE /\ <<current_page', current_type'>> = <<current_page, current_type>>
                 /\ output_data' = output_data
                 /\ current_content_buffer' =
                        current_content_buffer
                        \o (IF Classified(item) THEN units ELSE <<>>)

\* C19: a flush followed by a state reset happens exactly when a non-skipped
\* element's (page, kind) differs from the current (page, kind); so every
\* emitted block holds the contents of one contiguous run of non-skipped
\* elements that all have the block's page and kind, and no element's
\* content appears in more than one block.
C19_FlushOnPageKindChange == [][FlushOnChange]_vars /\ []BlocksAreRuns

\* two text elements of page 1 in one block, flushed by the table after them
C19_Witness ==
    /\ gpc = "returned"
    /\ Len(items) = 3
    /\ PageKind(items[1]) = <<1, "text">>
    /\ PageKind(items[2]) = <<1, "text">>
    /\ PageKind(items[3]) = <<1, "table">>
    /\ Len(output_data) = 2
    /\ output_data[2].content_type = "table"

\* C20: a flushed block's content combines the buffered units in arrival
\* order per kind: text units joined with a blank line, table markup strings
\* joined with a single newline, image descriptors kept as an ordered list;
\* two text elements "a", "b" of one page give the text block "a\n\nb".
C20_FlushCombinesPerKind ==
    [][Len(output_data') > Len(output_data) =>
          SameMembers(output_data',
                      Append(output_data,
                             Block(PInt(current_page), current_type,
                                   CombinedUnits(current_type,
                                                 current_content_buffer))))]_vars

\* the text block "a\n\nb" of page 1
C20_Witness ==
    /\ gpc = "returned"
    /\ Len(items) = 2
    /\ items[1].text = <<"a">> /\ items[2].text = <<"b">>
    /\ items[2].cls = "TextItem"
    /\ output_data = <<Block(PInt(1), "text", <<"a", NL, NL, "b">>)>>

\* an element that lacks what its kind requires: a text-like element without
\* text, a table that cannot be exported, an image that cannot be loaded
Malformed(item) ==
    \/ item.cls \in TextClasses /\ item.text = None
    \/ item.cls = "TableItem" /\ item.table.outcome = "raise"
    \/ item.cls = "PictureItem" /\ item.image.outcome = "raise"

\* part occurs in whole, as a run of consecutive members
OccursIn(part, whole) ==
    \E at \in 1..(Len(whole) - Len(part) + 1) :
        SubSeq(whole, at, at + Len(part) - 1) = part

\* the item's content is held by a block of the item's page and kind
Contributes(item, blocks) ==
    LET units == ItemUnits(item, ItemType(item), ItemPage(item))
        part == IF ItemType(item) = "image" THEN units ELSE units[1]
    IN  \E k \in 1..Len(blocks) :
            /\ blocks[k].content_type = ItemType(item)
            /\ blocks[k].page_no = PInt(ItemPage(item))
            /\ OccursIn(part, blocks[k].page_content)

\* C16: a malformed element is skipped and grouping continues: every
\* well-formed element before and after it still contributes to the emitted
\* blocks, the final flush included.
C16_MalformedSkipped ==
    gpc \in {"returned", "failed"} =>
        \A i \in 1..Len(items) :
            (~Malformed(items[i]) /\ NotSkipped(items[i]))
                => Contributes(items[i], output_data)

----------------------------------------------------------------------------
(* Claims about the chunk builder (SpecChunk, SpecTwice) *)

\* C1: within one run of process_data all emitted chunk ids are pairwise
\* distinct.
C1_ChunkIdsDistinct ==
    \A i, j \in 1..Len(all_chunks) :
        i # j => all_chunks[i].id # all_chunks[j].id

\* two blocks whose different titles give one slug, on one page, each split
\* into several units
C1_Witness ==
    /\ cpc = "returned"
    /\ Len(data) = 2
    /\ data[1].pytype = "dict" /\ data[2].pytype = "dict"
    /\ data[1].title # data[2].title
    /\ PageKey(data[1]) = PageKey(data[2])
    /\ Len(all_chunks) = 4

\* the slug of a block's title and the written form of its page locator
SlugOf(entry) == CleanTitle(StrOr(entry.title, <<"d", "o", "c">>))
LocatorOf(entry) == PyStr(PageOrZero(entry.page_no))

\* the page-scoped ordinal of block k: one more than the number of blocks
\* before it that have its slug and its page locator
OrdinalOf(blocks, k) ==
    1 + Cardinality({j \in 1..(k - 1) :
                        /\ SlugOf(blocks[j]) = SlugOf(blocks[k])
                        /\ LocatorOf(blocks[j]) = LocatorOf(blocks[k])})

\* the units a block hands to the formatters, in the order the splitter or
\* the image list gives them; none when the block is skipped or fails
UnitsOf(cfg, entry) ==
    IF entry.content_type = "text" /\ entry.content_is = "str"
    THEN IF Strip(entry.page_content) = <<>> THEN <<>>
         ELSE split_text(entry.page_content, cfg.chunk_size, cfg.chunk_overlap)
    ELSE IF entry.content_type = "table" /\ entry.content_is = "str"
    THEN IF Strip(entry.page_content) = <<>> THEN <<>>
         ELSE chunk_markdown_table(entry.page_content, cfg.max_table_rows).chunks
    ELSE IF entry.content_type = "image" /\ entry.content_is = "list"
    THEN IF \E n \in 1..Len(entry.page_content) :
                entry.page_content[n].pytype # "dict"
         THEN <<>>
         ELSE [n \in 1..Len(entry.page_content) |->
                  IF entry.page_content[n].image_description = Missing
                  THEN <<>> ELSE entry.page_content[n].image_description]
    ELSE <<>>

\* the number of units the splitter of its kind produced for a block
UnitCount(cfg, entry) == Len(UnitsOf(cfg, entry))

\* the ids "<title_slug>_<page_locator>_<ordinal>_<unit_index>" of block k
BlockIds(cfg, blocks, k) ==
    LET prefix == SlugOf(blocks[k]) \o <<"_">> \o LocatorOf(blocks[k]) \o <<"_">>
                  \o IntStr(OrdinalOf(blocks, k)) \o <<"_">>
    IN  [unit_index \in 1..UnitCount(cfg, blocks[k]) |->
            prefix \o IntStr(unit_index)]

RECURSIVE IdsUpTo(_, _, _)
IdsUpTo(cfg, blocks, k) ==
    IF k = 0 THEN <<>>
    ELSE IdsUpTo(cfg, blocks, k - 1) \o BlockIds(cfg, blocks, k)

\* C13: every emitted chunk's id is exactly
\* "<title_slug>_<page_locator>_<ordinal>_<unit_index>": the slug of the
\* block's title, the block's page locator, the block's page-scoped ordinal
\* and the 1-based position of the unit among the units of the block, the
\* unit indices of one block being 1..k without gaps.
C13_ChunkIdFormat ==
    cpc = "returned" =>
        [i \in 1..Len(all_chunks) |-> all_chunks[i].id]
            = IdsUpTo(self, data, Len(data))

\* the second unit of the second block of title "a.b" on page 1
C13_Witness ==
    /\ cpc = "returned"
    /\ Len(data) = 2
    /\ \E i \in 1..Len(all_chunks) :
           all_chunks[i].id = <<"a", "_", "b", "_", "1", "_", "2", "_", "2">>

\* C3: two runs on identical input blocks and identical configuration return
\* identical chunk lists, parent_id included.
C3_RunsAgree ==
    (run_no = 2 /\ cpc = "returned") => all_chunks = first_chunks

\* the id at position i of the list, or None where the list has no such place
IdOrNone(chunks, i) ==
    IF i \in 1..Len(chunks) THEN chunks[i].id ELSE None

C5_BadBlockNeverAborts == cpc # "raised"

\* a configuration section 7 of the specification calls an error
ConfigurationError(cfg) ==
    cfg.chunk_overlap >= cfg.chunk_size \/ cfg.max_table_rows <= 0

\* C6: with a configuration error no block is processed and no chunk list is
\* returned.
C6_ConfigErrorRejected ==
    ConfigurationError(self) => (entry_idx = 0 /\ cpc # "returned")

\* a text block whose content is empty or holds nothing but whitespace
IsBlank(str) == \A i \in 1..Len(str) : str[i] \in {" ", NL}
IsBlankText(entry) ==
    /\ entry.pytype = "dict"
    /\ entry.content_type = "text" /\ entry.content_is = "str"
    /\ IsBlank(entry.page_content)
NotBlankText(entry) == ~IsBlankText(entry)

\* what a chunk carries apart from its id
ChunkBody(chunk) ==
    [content |-> chunk.content, chunk_type |-> chunk.chunk_type,
     title |-> chunk.title, parent_id |-> chunk.parent_id]

\* the chunks of a block list, block by block
RECURSIVE BodiesOf(_, _)
BodiesOf(cfg, blocks) ==
    IF blocks = <<>> THEN <<>>
    ELSE LET chunks == EntryChunks(cfg, Head(blocks), <<>>).chunks
         IN  [i \in 1..Len(chunks) |-> ChunkBody(chunks[i])]
             \o BodiesOf(cfg, Tail(blocks))

\* C18: a text block whose content is empty or whitespace-only yields zero
\* chunks and raises no error, and the chunks of all other blocks of the run
\* are still emitted: the run emits what it emits for the other blocks alone.
C18_BlankTextYieldsNothing ==
    /\ cpc = "returned" =>
           [i \in 1..Len(all_chunks) |-> ChunkBody(all_chunks[i])]
               = BodiesOf(self, SelectSeq(data, NotBlankText))
    /\ cpc = "raised" => ~IsBlankText(data[entry_idx + 1])

\* a blank text block first, then a block whose chunks are emitted
C18_Witness ==
    /\ cpc = "returned"
    /\ Len(data) = 2
    /\ IsBlankText(data[1])
    /\ data[1].page_content # <<>>
    /\ data[2].content_type = "table"
    /\ Len(all_chunks) = 2

----------------------------------------------------------------------------
(* Claims about calls that share one DocumentChunker (SpecShared) *)

\* C15: two documents processed at the same time share no mutable state:
\* under every interleaving of process_data calls on one shared
\* DocumentChunker, each call returns the ids, ordinals, order and neighbour
\* links it returns when it runs alone, and a later call on the same instance
\* starts its page-scoped ordinals at 1 again.
C15_CallsIsolated ==
    \A w \in DOMAIN workers :
        workers[w].cpc = "returned" =>
            LET ids == IdsUpTo(self, workers[w].data, Len(workers[w].data))
                chunks == workers[w].all_chunks
            IN  /\ Len(chunks) = Len(ids)
                /\ \A i \in 1..Len(chunks) :
                       /\ chunks[i].id = ids[i]
                       /\ chunks[i].neighbour =
                              (IF i > 1 THEN <<ids[i - 1]>> ELSE <<>>)
                              \o (IF i < Len(ids) THEN <<ids[i + 1]>> ELSE <<>>)

\* a third call has returned on the instance, with a second block of "a.b"
\* page 1, while the call of the other worker is half way through its own
\* blocks of "a.b" page 1
C15_Witness ==
    /\ calls = 3
    /\ workers[2].cpc = "returned"
    /\ \E i \in 1..Len(workers[2].all_chunks) :
           workers[2].all_chunks[i].id
               = <<"a", "_", "b", "_", "1", "_", "2", "_", "1">>
    /\ workers[1].cpc = "loop"
    /\ workers[1].entry_idx = 1
    /\ Len(workers[1].data) = 2
    /\ workers[1].all_chunks # <<>>
    /\ workers[1].all_chunks[1].id
           = <<"a", "_", "b", "_", "1", "_", "1", "_", "1">>

----------------------------------------------------------------------------
(* Further claims about the block grouping engine (SpecGroup) *)

\* a Skip element: text that is empty or whitespace-only, or a kind outside
\* the known set
IsSkip(item) ==
    \/ item.cls \notin {"TableItem", "PictureItem", "TextItem",
                        "SectionHeaderItem", "ListItem"}
    \/ /\ item.cls \in {"TextItem", "SectionHeaderItem", "ListItem"}
       /\ IsBlank(item.text)

\* a text element that is not blank
IsText(item) ==
    /\ item.cls \in {"TextItem", "SectionHeaderItem", "ListItem"}
    /\ item.text # None
    /\ ~IsBlank(item.text)

\* one pass of the loop over a Skip element leaves the state alone
SkipLeavesState ==
    (gpc = "iterate" /\ item_idx' = item_idx + 1 /\ IsSkip(items[item_idx + 1]))
        => UNCHANGED <<current_page, current_type, current_content_buffer,
                       output_data>>

\* two text elements of one page with nothing but Skip elements between them
\* lie side by side in one text block of that page
SkipsDoNotSeparate ==
    gpc = "returned" =>
        \A i, j \in 1..Len(items) :
            (/\ i < j
             /\ IsText(items[i]) /\ IsText(items[j])
             /\ ItemPage(items[i]) = ItemPage(items[j])
             /\ \A m \in (i + 1)..(j - 1) : IsSkip(items[m]))
            => \E k \in 1..Len(output_data) :
                   /\ output_data[k].content_type = "text"
                   /\ output_data[k].page_no = PInt(ItemPage(items[i]))
                   /\ OccursIn(ItemUnits(items[i], "text", ItemPage(items[i]))[1]
                                   \o <<NL, NL>>
                                   \o ItemUnits(items[j], "text", ItemPage(items[j]))[1],
                               output_data[k].page_content)

\* C21: Skip elements (blank or whitespace-only text, kinds outside the known
\* set) are dropped before grouping: they never trigger a flush or change the
\* current (page, kind), so two text elements on the same page separated only
\* by skipped elements end up in the same block.
C21_SkipsDropped == [][SkipLeavesState]_vars /\ []SkipsDoNotSeparate

\* "a" and "b" of page 1 with a Skip element between them, in one block
C21_Witness ==
    /\ gpc = "returned"
    /\ Len(items) = 3
    /\ items[1].text = <<"a">> /\ items[3].text = <<"b">>
    /\ items[3].cls = "TextItem"
    /\ IsSkip(items[2])
    /\ output_data = <<Block(PInt(1), "text", <<"a", NL, NL, "b">>)>>

----------------------------------------------------------------------------
(* Further claims about the chunk builder (SpecChunk, SpecTwice) *)

\* the written key of block k, and the blocks of a list that have the
\* (title_slug, page_locator) of block k
KeyOf(blocks, k) == SlugOf(blocks[k]) \o <<"_">> \o LocatorOf(blocks[k])
SameKeyBlocks(blocks, k) ==
    {j \in 1..Len(blocks) :
        /\ SlugOf(blocks[j]) = SlugOf(blocks[k])
        /\ LocatorOf(blocks[j]) = LocatorOf(blocks[k])}

\* s begins with prefix
BeginsWith(s, prefix) ==
    Len(s) >= Len(prefix) /\ SubSeq(s, 1, Len(prefix)) = prefix

\* C22: the page-scoped ordinal is a per-run counter per (title_slug,
\* page_locator) key: the k-th block processed for a key receives ordinal k,
\* starting at 1 and incremented once per block processed for that key,
\* whether or not the block yields chunks, and blocks with different keys
\* never share or advance each other's counter.
C22_OrdinalPerKey ==
    cpc = "returned" =>
        /\ DOMAIN page_counters = {KeyOf(data, k) : k \in 1..Len(data)}
        /\ \A k \in 1..Len(data) :
               page_counters[KeyOf(data, k)]
                   = 1 + Cardinality(SameKeyBlocks(data, k))
        /\ LET prefixes == {KeyOf(data, k) \o <<"_">>
                            \o IntStr(OrdinalOf(data, k)) \o <<"_">> :
                                k \in 1..Len(data)}
           IN  \A i \in 1..Len(all_chunks) :
                   \E prefix \in prefixes : BeginsWith(all_chunks[i].id, prefix)

\* a blank text block takes ordinal 1 of "a.b" page 1, the block after it
\* gets ordinal 2, and a block of another key starts at 1
C22_Witness ==
    /\ cpc = "returned"
    /\ Len(data) = 2
    /\ IsBlankText(data[1])
    /\ all_chunks # <<>>
    /\ all_chunks[1].id = <<"a", "_", "b", "_", "1", "_", "2", "_", "1">>
    /\ page_counters[<<"a", "_", "b", "_", "1">>] = 3

\* the positions in the chunk list of the chunks of block k
RECURSIVE UnitsBefore(_, _, _)
UnitsBefore(cfg, blocks, k) ==
    IF k <= 1 THEN 0
    ELSE UnitsBefore(cfg, blocks, k - 1) + UnitCount(cfg, blocks[k - 1])

ChunkPositions(cfg, blocks, k) ==
    LET before == UnitsBefore(cfg, blocks, k)
    IN  (before + 1)..(before + UnitCount(cfg, blocks[k]))

\* C23: all chunks emitted from one block carry the same parent_id: the
\* block's source-supplied element_id when it has one, otherwise an
\* identifier generated once for that block; the parent_id does not change
\* between the units of a block.
C23_OneParentPerBlock ==
    cpc = "returned" =>
        \A k \in 1..Len(data) :
            LET positions == ChunkPositions(self, data, k)
            IN  \A i \in positions :
                    /\ \A j \in positions :
                           all_chunks[i].parent_id = all_chunks[j].parent_id
                    /\ IF source_data[k].element_id # Missing
                       THEN all_chunks[i].parent_id = source_data[k].element_id
                       ELSE all_chunks[i].parent_id \in UUIDs

\* a block without element_id that yields two chunks, then a block that
\* brings its element_id
C23_Witness ==
    /\ cpc = "returned"
    /\ Len(data) = 2
    /\ source_data[1].element_id = Missing
    /\ source_data[2].element_id = <<"e", "1">>
    /\ Len(all_chunks) = 3
    /\ all_chunks[1].parent_id = all_chunks[2].parent_id
    /\ all_chunks[3].parent_id = <<"e", "1">>

\* C24: process_data is a pure function of its input: after the call the
\* input block list and every input block record are unchanged (no field
\* added, removed or modified), so a second call on the same input object
\* sees what the first call saw.
C24_InputUnchanged == cpc = "returned" => data = source_data

\* the slug of a title, character by character: a dot becomes '_', an
\* alphanumeric, '_' or '-' stays, anything else is dropped
RECURSIVE SlugChars(_)
SlugChars(str) ==
    IF str = <<>> THEN <<>>
    ELSE (CASE Head(str) = "." -> <<"_">>
            [] Head(str) \in Alnum \cup {"_", "-"} -> <<Head(str)>>
            [] OTHER -> <<>>)
         \o SlugChars(Tail(str))

TitleSlug(title) ==
    IF title \in {None, Missing, <<>>} THEN <<"d", "o", "c">> ELSE SlugChars(title)

\* C25: for every title, the title slug used in chunk ids contains only
\* alphanumeric characters, '_' and '-': every '.' of the title is replaced
\* by '_' and every other character outside that set is dropped; a missing
\* or empty title yields the slug "doc".
C25_TitleSlug ==
    cpc = "returned" =>
        \A k \in 1..Len(data) :
            LET slug == TitleSlug(source_data[k].title)
                prefix == slug \o <<"_">> \o LocatorOf(source_data[k]) \o <<"_">>
            IN  \A i \in ChunkPositions(self, data, k) :
                    /\ BeginsWith(all_chunks[i].id, prefix)
                    /\ \A c \in 1..Len(slug) :
                           all_chunks[i].id[c] \in Alnum \cup {"_", "-"}

\* a title with a dot, then a title with a character the slug drops
C25_Witness ==
    /\ cpc = "returned"
    /\ Len(data) = 2
    /\ source_data[1].title = <<"a", ".", "b">>
    /\ source_data[2].title = <<"a", "/", "b">>
    /\ all_chunks # <<>>
    /\ BeginsWith(all_chunks[1].id, <<"a", "_", "b", "_", "1", "_">>)
    /\ BeginsWith(all_chunks[Len(all_chunks)].id,
                  <<"a", "b", "_", "1", "-", "2", "_">>)

----------------------------------------------------------------------------
(* Further claims about the table splitter (SpecTable) *)

\* C26 as claimed: for table content with fewer than two row lines, the
\* content with zero row lines included, _chunk_markdown_table returns
\* exactly one unit equal to the content unmodified.
C26_ShortTableOneUnit ==
    (tpc # "call" /\ Len(RowLinesOf(markdown_text)) < 2)
    => /\ tpc = "returned"
       /\ table_chunks = <<markdown_text>>

\* C26 as amended: for non-empty table content with fewer than two row lines
\* the call returns exactly one unit equal to the content unmodified; for the
\* empty content it returns no unit.
C26_ShortTableOneUnitUnlessEmpty ==
    (tpc # "call" /\ Len(RowLinesOf(markdown_text)) < 2)
    => /\ tpc = "returned"
       /\ table_chunks =
              IF markdown_text = <<>> THEN <<>> ELSE <<markdown_text>>

\* a content of one row line and a line that is no row, returned as it is
C26_Witness ==
    /\ tpc = "returned"
    /\ Len(RowLinesOf(markdown_text)) = 1
    /\ Len(Split(markdown_text, NL)) = 3
    /\ Split(markdown_text, NL)[1] = <<"x">>
    /\ Split(markdown_text, NL)[3] = <<>>
    /\ table_chunks = <<markdown_text>>

----------------------------------------------------------------------------
(* The order of the chunk list (SpecChunk) *)

EndsWith(s, suffix) ==
    /\ Len(s) >= Len(suffix)
    /\ SubSeq(s, Len(s) - Len(suffix) + 1, Len(s)) = suffix

\* a step keeps the chunks already in the list where they are, and what a
\* pass of the loop adds is the units of its block, first unit first
AppendsInOrder ==
    /\ Len(all_chunks') >= Len(all_chunks)
    /\ \A i \in 1..Len(all_chunks) :
           /\ all_chunks'[i].id = all_chunks[i].id
           /\ ChunkBody(all_chunks'[i]) = ChunkBody(all_chunks[i])
    /\ entry_idx' \in {entry_idx, entry_idx + 1}
    /\ LET added == SubSeq(all_chunks', Len(all_chunks) + 1, Len(all_chunks'))
       IN  IF entry_idx' = entry_idx + 1
           THEN /\ [u \in 1..Len(added) |-> added[u].content]
                      = UnitsOf(self, data'[entry_idx'])
                /\ \A u \in 1..Len(added) :
                       /\ added[u].parent_id = data'[entry_idx'].element_id
                       /\ EndsWith(added[u].id, <<"_">> \o IntStr(u))
           ELSE added = <<>>

\* C27: the final chunk list preserves block and unit order: it is the
\* concatenation, in input block order, of each successfully processed
\* block's chunks in splitter unit order, so every chunk of a block precedes
\* every chunk of a later block and unit indices within one block increase
\* along the list.
C27_OrderPreserved == [][AppendsInOrder]_vars

\* a returned list of four chunks: the two images of the first block in the
\* order of its image list, then the two units of the text block
C27_Witness ==
    /\ cpc = "returned"
    /\ Len(data) = 2
    /\ data[1].content_type = "image"
    /\ data[2].content_type = "text"
    /\ Len(all_chunks) = 4
    /\ all_chunks[1].content = <<"d">>
    /\ all_chunks[2].content = <<>>
    /\ EndsWith(all_chunks[2].id, <<"_", "2">>)
    /\ all_chunks[3].content = <<"a", "b", "c">>
    /\ EndsWith(all_chunks[4].id, <<"_", "2">>)

----------------------------------------------------------------------------
(* Adjacent blocks of the grouping engine's output (SpecGroup) *)

\* C28: in the output of the grouping engine, before any cross-page merge,
\* no two adjacent blocks have both the same page and the same kind, for
\* every input element sequence, a sequence where a run of images between
\* two text runs on one page is filtered out whole included.
C28_NoAdjacentSamePageKind ==
    gpc = "returned"
    => \A k \in 1..(Len(output_data) - 1) :
           ~ /\ output_data[k].page_no = output_data[k + 1].page_no
             /\ output_data[k].content_type = output_data[k + 1].content_type

----------------------------------------------------------------------------
(* Claims about the store (SpecStore) *)

\* C29: add_documents stores every document of a batch under its own store
\* id: two distinct chunks (distinct chunk ids) never get the same store id,
\* also when their content is identical, so the stored chunk count equals
\* the number of chunks added.
C29_OwnStoreIdPerChunk ==
    spc \in {"added", "raised"}
    => /\ \A i, j \in 1..Len(documents) :
              documents[i].metadata.id # documents[j].metadata.id
                  => store_ids[i] # store_ids[j]
       /\ spc = "added"
       /\ Cardinality(collection) = Len(store_chunks)

----------------------------------------------------------------------------
(* Claims about processing_status (SpecStatus) *)

Completed(fid, step) ==
    /\ step \in DOMAIN processing_status[fid].steps
    /\ processing_status[fid].steps[step] = "completed"

\* C30: after any sequence of upload, process, delete and clear-collection
\* requests, a step recorded as "completed" for a file_id implies that every
\* earlier step of the order upload < parse < chunk < embed is recorded as
\* "completed" for that file_id.
C30_CompletedStepsInOrder ==
    \A fid \in DOMAIN processing_status :
        \A later \in 1..Len(Steps) :
            Completed(fid, Steps[later])
                => \A earlier \in 1..(later - 1) : Completed(fid, Steps[earlier])

====
